---- MODULE Spec2Model ----
(***************************************************************************)
(* Model of the DentalCare-AI chat pipeline (api/chat handler): input      *)
(* validation, cache lookup, language detection, intent rewriting, strict  *)
(* routing, FAQ matching, answer assembly and the cache write-back, with   *)
(* the client that logs message rows around each request.                  *)
(*                                                                         *)
(* Text is a sequence of one-character strings.  JavaScript numbers are    *)
(* records: a small integer, a "big" finite value (a multiple of 1e200,    *)
(* whose square overflows), an infinity or NaN.                            *)
(***************************************************************************)
EXTENDS Integers, Sequences, FiniteSets, TLC

VARIABLES call, rows, req, cfg

vars == <<call, rows, req, cfg>>

Null == "null"

Min(a, b) == IF a <= b THEN a ELSE b

(***************************************************************************)
(* Strings                                                                 *)
(***************************************************************************)
WhiteSpace == {" ", "\n"}

UpperLetters == <<"A","B","C","D","E","F","G","H","I","J","K","L","M",
                  "N","O","P","Q","R","S","T","U","V","W","X","Y","Z">>

LowerLetters == <<"a","b","c","d","e","f","g","h","i","j","k","l","m",
                  "n","o","p","q","r","s","t","u","v","w","x","y","z">>

Digits == <<"0","1","2","3","4","5","6","7","8","9">>

\* One character of the Urdu script range U+0600..U+06FF.
UrduChars == {"<U+0628>"}

IsUpper(c) == \E i \in 1..26 : UpperLetters[i] = c

IsLower(c) == \E i \in 1..26 : LowerLetters[i] = c

IsDigit(c) == \E i \in 1..10 : Digits[i] = c

\* \w of a JavaScript regular expression: [A-Za-z0-9_]
IsWordChar(c) == IsUpper(c) \/ IsLower(c) \/ IsDigit(c) \/ c = "_"

ToLowerChar(c) ==
  IF IsUpper(c) THEN LowerLetters[CHOOSE i \in 1..26 : UpperLetters[i] = c] ELSE c

ToUpperChar(c) ==
  IF IsLower(c) THEN UpperLetters[CHOOSE i \in 1..26 : LowerLetters[i] = c] ELSE c

ToLowerCase(s) == [i \in 1..Len(s) |-> ToLowerChar(s[i])]

ToUpperCase(s) == [i \in 1..Len(s) |-> ToUpperChar(s[i])]

\* String.prototype.slice(0, n)
Slice(s, n) == SubSeq(s, 1, Min(Len(s), n))

TrimStart(s) ==
  IF \A i \in 1..Len(s) : s[i] \in WhiteSpace THEN <<>>
  ELSE SubSeq(s, CHOOSE i \in 1..Len(s) :
                   s[i] \notin WhiteSpace /\ \A j \in 1..(i - 1) : s[j] \in WhiteSpace,
              Len(s))

TrimEnd(s) ==
  IF \A i \in 1..Len(s) : s[i] \in WhiteSpace THEN <<>>
  ELSE SubSeq(s, 1, CHOOSE i \in 1..Len(s) :
                      s[i] \notin WhiteSpace /\ \A j \in (i + 1)..Len(s) : s[j] \in WhiteSpace)

\* String.prototype.trim()
Trim(s) == TrimEnd(TrimStart(s))

\* s.split(/\s+/).filter(w => w.length > 0).length
WordCount(s) ==
  Cardinality({i \in 1..Len(s) :
                 /\ s[i] \notin WhiteSpace
                 /\ (i = 1 \/ s[i - 1] \in WhiteSpace)})

\* s.split(/\s+/).filter(w => w.length > 0), as the sequence of words
RECURSIVE Words(_)
Words(s) ==
  LET t == TrimStart(s)
  IN IF t = <<>> THEN <<>>
     ELSE LET n == IF \A i \in 1..Len(t) : t[i] \notin WhiteSpace THEN Len(t)
                   ELSE (CHOOSE i \in 1..Len(t) :
                           t[i] \in WhiteSpace /\ \A j \in 1..(i - 1) : t[j] \notin WhiteSpace) - 1
          IN <<SubSeq(t, 1, n)>> \o Words(SubSeq(t, n + 1, Len(t)))

RECURSIVE JoinWords(_)
JoinWords(ws) ==
  IF ws = <<>> THEN <<>>
  ELSE IF Len(ws) = 1 THEN ws[1]
  ELSE ws[1] \o <<" ">> \o JoinWords(Tail(ws))

\* s.includes(k)
Includes(s, k) ==
  \E i \in 1..(Len(s) - Len(k) + 1) : SubSeq(s, i, i + Len(k) - 1) = k

(***************************************************************************)
(* JavaScript numbers                                                      *)
(***************************************************************************)
Fin(n) == [k |-> "fin", v |-> n]

\* n * 1e200: finite, but its square is beyond the largest double
Big(n) == [k |-> "big", v |-> n]

Inf(sign) == [k |-> "inf", v |-> sign]

NaN == [k |-> "nan", v |-> 0]

Sign(n) == IF n > 0 THEN 1 ELSE IF n < 0 THEN -1 ELSE 0

\* IEEE-754 multiplication
NumMul(x, y) ==
  IF x.k = "nan" \/ y.k = "nan" THEN NaN
  ELSE IF x.k = "inf" \/ y.k = "inf"
       THEN IF x.v = 0 \/ y.v = 0 THEN NaN ELSE Inf(Sign(x.v) * Sign(y.v))
  ELSE IF x.k = "big" /\ y.k = "big" THEN Inf(Sign(x.v) * Sign(y.v))
  ELSE IF x.k = "big" \/ y.k = "big"
       THEN IF x.v = 0 \/ y.v = 0 THEN Fin(0) ELSE Big(x.v * y.v)
  ELSE Fin(x.v * y.v)

\* IEEE-754 addition
NumAdd(x, y) ==
  IF x.k = "nan" \/ y.k = "nan" THEN NaN
  ELSE IF x.k = "inf" /\ y.k = "inf" THEN (IF x.v = y.v THEN x ELSE NaN)
  ELSE IF x.k = "inf" THEN x
  ELSE IF y.k = "inf" THEN y
  ELSE IF x.k = "big" /\ y.k = "big"
       THEN IF x.v + y.v = 0 THEN Fin(0) ELSE Big(x.v + y.v)
  ELSE IF x.k = "big" THEN x
  ELSE IF y.k = "big" THEN y
  ELSE Fin(x.v + y.v)

\* The class of Math.sqrt(x) for a sum of squares x: zero, pos (finite), inf, nan
SqrtClass(x) ==
  IF x.k = "nan" THEN "nan"
  ELSE IF x.k = "inf" THEN "inf"
  ELSE IF x.v = 0 THEN "zero"
  ELSE "pos"

\* The class of the product of two square roots
MulClass(c, d) ==
  IF c = "nan" \/ d = "nan" THEN "nan"
  ELSE IF c = "inf" \/ d = "inf"
       THEN IF c = "zero" \/ d = "zero" THEN "nan" ELSE "inf"
  ELSE IF c = "zero" \/ d = "zero" THEN "zero"
  ELSE "pos"

RECURSIVE DotProduct(_, _, _)
DotProduct(a, b, i) ==
  IF i = 0 THEN Fin(0)
  ELSE NumAdd(DotProduct(a, b, i - 1), NumMul(a[i], b[i]))

\* dotProduct / denominator, kept exact: the value is dot / sqrt(na * nb)
Quotient(dot, na, nb, den) ==
  IF den = "nan" \/ dot.k = "nan" THEN [k |-> "nan", dot |-> 0, na |-> 0, nb |-> 0]
  ELSE IF den = "zero"
       THEN IF dot.v = 0 THEN [k |-> "nan", dot |-> 0, na |-> 0, nb |-> 0]
            ELSE [k |-> "inf", dot |-> Sign(dot.v), na |-> 0, nb |-> 0]
  ELSE IF den = "inf"
       THEN IF dot.k = "inf" THEN [k |-> "nan", dot |-> 0, na |-> 0, nb |-> 0]
            ELSE [k |-> "zero", dot |-> 0, na |-> 0, nb |-> 0]
  ELSE IF dot.k = "inf" THEN [k |-> "inf", dot |-> dot.v, na |-> 0, nb |-> 0]
  ELSE IF dot.k = "big" THEN [k |-> "bigval", dot |-> Sign(dot.v), na |-> 0, nb |-> 0]
  ELSE IF dot.v = 0 THEN [k |-> "zero", dot |-> 0, na |-> 0, nb |-> 0]
  ELSE [k |-> "val", dot |-> dot.v, na |-> na.v, nb |-> nb.v]

Zero == [k |-> "zero", dot |-> 0, na |-> 0, nb |-> 0]

cosineSimilarity(a, b) ==
  IF Len(a) = 0 \/ Len(b) = 0 \/ Len(a) # Len(b) THEN Zero
  ELSE LET dotProduct == DotProduct(a, b, Len(a))
           normA == DotProduct(a, a, Len(a))
           normB == DotProduct(b, b, Len(a))
           denominator == MulClass(SqrtClass(normA), SqrtClass(normB))
       IN IF denominator = "zero" THEN Zero
          ELSE Quotient(dotProduct, normA, normB, denominator)

\* similarity > 0.5
GreaterThanHalf(sim) ==
  IF sim.k = "val" THEN sim.dot > 0 /\ 4 * sim.dot * sim.dot > sim.na * sim.nb
  ELSE IF sim.k \in {"inf", "bigval"} THEN sim.dot > 0
  ELSE FALSE

\* x < y for two similarities (neither NaN)
SimLess(x, y) ==
  LET sx == IF x.k = "zero" THEN 0 ELSE Sign(x.dot)
      sy == IF y.k = "zero" THEN 0 ELSE Sign(y.dot)
      mx == IF x.k = "val" THEN 1 ELSE IF x.k = "zero" THEN 0 ELSE 2
      my == IF y.k = "val" THEN 1 ELSE IF y.k = "zero" THEN 0 ELSE 2
  IN IF sx # sy THEN sx < sy
     ELSE IF sx = 0 THEN FALSE
     ELSE IF mx # my THEN (IF sx > 0 THEN mx < my ELSE mx > my)
     ELSE IF mx # 1 THEN FALSE
     ELSE IF sx > 0
          THEN x.dot * x.dot * y.na * y.nb < y.dot * y.dot * x.na * x.nb
          ELSE x.dot * x.dot * y.na * y.nb > y.dot * y.dot * x.na * x.nb

(***************************************************************************)
(* The FAQ store: a FAQ is its id; its columns are functions of the id.    *)
(***************************************************************************)
MaxFaqs == 6

FaqIds == 1..MaxFaqs

\* faqs.embedding, already parsed; <<>> is a missing or unparsable embedding
FaqEmbedding(id) ==
  CASE id % 6 = 1 -> <<Fin(1), Fin(2)>>
    [] id % 6 = 2 -> <<Fin(1), Fin(0)>>
    [] id % 6 = 3 -> <<Fin(1), Fin(1)>>
    [] id % 6 = 4 -> <<>>
    [] id % 6 = 5 -> <<Fin(0), Fin(1)>>
    [] OTHER      -> <<Fin(1), Fin(0), Fin(0)>>

\* what the embedding service returns for an intent
IntentEmbeddings == {<<Fin(1), Fin(0)>>, <<Fin(0), Fin(1)>>, <<Fin(2), Fin(1)>>}

TopN == 5

\* ranked.sort((a, b) => b.similarity - a.similarity): stable, descending
RECURSIVE InsertRanked(_, _)
InsertRanked(sorted, item) ==
  IF sorted = <<>> THEN <<item>>
  ELSE IF SimLess(Head(sorted).similarity, item.similarity)
       THEN <<item>> \o sorted
       ELSE <<Head(sorted)>> \o InsertRanked(Tail(sorted), item)

RECURSIVE SortRanked(_, _)
SortRanked(ranked, n) ==
  IF n = 0 THEN <<>> ELSE InsertRanked(SortRanked(ranked, n - 1), ranked[n])

getTopFAQs(intentEmbedding, faqs, topN) ==
  LET ranked == [i \in 1..Len(faqs) |->
                   LET embedding == FaqEmbedding(faqs[i])
                   IN [faq |-> faqs[i],
                       similarity |->
                         IF Len(embedding) > 0 /\ Len(embedding) = Len(intentEmbedding)
                         THEN cosineSimilarity(intentEmbedding, embedding)
                         ELSE Zero]]
  IN Slice(SortRanked(ranked, Len(ranked)), topN)

(***************************************************************************)
(* A completion response: the call throws, or choices[0]?.message?.content *)
(* is missing (k = "none"), or it is a text.                               *)
(***************************************************************************)
Throw == [k |-> "throw", s |-> <<>>]

NoContent == [k |-> "none", s |-> <<>>]

Text(s) == [k |-> "text", s |-> s]

NONE == <<"N","O","N","E">>

\* the match of /^(\d+)/
LeadingDigits(s) ==
  LET stops == {i \in 1..Len(s) : ~IsDigit(s[i])}
  IN IF stops = {} THEN s
     ELSE SubSeq(s, 1, (CHOOSE i \in stops : \A j \in stops : i <= j) - 1)

DigitValue(c) == (CHOOSE i \in 1..10 : Digits[i] = c) - 1

\* parseInt(d, 10) of a run of digits
RECURSIVE ParseInt(_)
ParseInt(d) ==
  IF d = <<>> THEN 0
  ELSE 10 * ParseInt(SubSeq(d, 1, Len(d) - 1)) + DigitValue(d[Len(d)])

\* a catch block that returns the top candidate whatever its similarity
SelectFallbackAnyScore(topFAQs) ==
  IF Len(topFAQs) > 0
  THEN [faq |-> topFAQs[1].faq, reads |-> {0}, called |-> TRUE]
  ELSE [faq |-> 0, reads |-> {0}, called |-> TRUE]

\* the catch block: the top candidate when its similarity is above 0.5
SelectFallback(topFAQs) ==
  IF Len(topFAQs) > 0 /\ GreaterThanHalf(topFAQs[1].similarity)
  THEN [faq |-> topFAQs[1].faq, reads |-> {0}, called |-> TRUE]
  ELSE [faq |-> 0, reads |-> {0}, called |-> TRUE]

SelectNoRangeCheck(topFAQs, response) ==
  IF Len(topFAQs) = 0 THEN [faq |-> 0, reads |-> {}, called |-> FALSE]
  ELSE IF response.k # "text" THEN SelectFallback(topFAQs)
  ELSE LET result == ToUpperCase(Trim(response.s))
           digits == LeadingDigits(result)
           index  == ParseInt(digits) - 1
       IN IF result = NONE THEN [faq |-> 0, reads |-> {}, called |-> TRUE]
          ELSE IF digits # <<>>
               THEN IF index >= 0 /\ index < Len(topFAQs)
                    THEN [faq |-> topFAQs[index + 1].faq, reads |-> {index}, called |-> TRUE]
                    ELSE [SelectFallback(topFAQs) EXCEPT !.reads = @ \cup {index}]
          ELSE [faq |-> 0, reads |-> {}, called |-> TRUE]

\* Returns the chosen FAQ id (0 for null), the 0-based indices of topFAQs
\* it read, and whether the completion service was called.
selectBestFAQWithLLM(topFAQs, response) ==
  IF Len(topFAQs) = 0 THEN [faq |-> 0, reads |-> {}, called |-> FALSE]
  ELSE IF response.k # "text" THEN SelectFallback(topFAQs)
  ELSE LET result == ToUpperCase(Trim(response.s))
           digits == LeadingDigits(result)
           index  == ParseInt(digits) - 1
       IN IF result = NONE THEN [faq |-> 0, reads |-> {}, called |-> TRUE]
          ELSE IF digits # <<>> /\ index >= 0 /\ index < Len(topFAQs)
               THEN [faq |-> topFAQs[index + 1].faq, reads |-> {index}, called |-> TRUE]
          ELSE [faq |-> 0, reads |-> {}, called |-> TRUE]

(***************************************************************************)
(* Strict Router                                                           *)
(***************************************************************************)
RouteLabels == {"GREETING", "META", "IRRELEVANT", "EDUCATION", "FAQ", "GENERAL"}

LabelText(l) ==
  CASE l = "GREETING"   -> <<"G","R","E","E","T","I","N","G">>
    [] l = "META"       -> <<"M","E","T","A">>
    [] l = "IRRELEVANT" -> <<"I","R","R","E","L","E","V","A","N","T">>
    [] l = "EDUCATION"  -> <<"E","D","U","C","A","T","I","O","N">>
    [] l = "FAQ"        -> <<"F","A","Q">>
    [] l = "GENERAL"    -> <<"G","E","N","E","R","A","L">>

\* ['GREETING', ..., 'GENERAL'].includes(result)
IsLabelText(s) == \E l \in RouteLabels : LabelText(l) = s

LabelOf(s) == CHOOSE l \in RouteLabels : LabelText(l) = s

\* The primary backend (OpenRouter) is not called without OPENROUTER_API_KEY.
Unconfigured == [k |-> "unconfigured", s |-> <<>>]

\* The primary backend answered with a non-OK HTTP status.
NotOk == [k |-> "notok", s |-> <<>>]

\* data.choices?.[0]?.message?.content?.trim().toUpperCase(), when it is a string
RouterResult(response) == ToUpperCase(Trim(response.s))

StrictRouterNoDefault(canonicalIntent, primary, secondary) ==
  IF primary.k = "text" /\ IsLabelText(RouterResult(primary))
  THEN [label |-> LabelOf(RouterResult(primary)), calls |-> <<"primary">>]
  ELSE LET calls == IF primary.k = "unconfigured" THEN <<"secondary">>
                    ELSE <<"primary", "secondary">>
       IN IF secondary.k = "text" /\ IsLabelText(RouterResult(secondary))
          THEN [label |-> LabelOf(RouterResult(secondary)), calls |-> calls]
          ELSE [label |-> Null, calls |-> calls]

\* a router that consults the secondary backend whatever the primary answered
StrictRouterAsksBoth(canonicalIntent, primary, secondary) ==
  LET calls == IF primary.k = "unconfigured" THEN <<"secondary">>
               ELSE <<"primary", "secondary">>
  IN IF primary.k = "text" /\ IsLabelText(RouterResult(primary))
     THEN [label |-> LabelOf(RouterResult(primary)), calls |-> calls]
     ELSE IF secondary.k = "text" /\ IsLabelText(RouterResult(secondary))
     THEN [label |-> LabelOf(RouterResult(secondary)), calls |-> calls]
     ELSE [label |-> "EDUCATION", calls |-> calls]

\* Returns the label and the backends called, in order.
strictRouter(canonicalIntent, primary, secondary) ==
  IF primary.k = "text" /\ IsLabelText(RouterResult(primary))
  THEN [label |-> LabelOf(RouterResult(primary)), calls |-> <<"primary">>]
  ELSE LET calls == IF primary.k = "unconfigured" THEN <<"secondary">>
                    ELSE <<"primary", "secondary">>
       IN IF secondary.k = "text" /\ IsLabelText(RouterResult(secondary))
          THEN [label |-> LabelOf(RouterResult(secondary)), calls |-> calls]
          ELSE [label |-> "EDUCATION", calls |-> calls]

\* Texts a routing backend may answer with.
RouterTexts ==
  {LabelText(l) : l \in RouteLabels}
    \cup {ToLowerCase(LabelText("FAQ")), <<" ">> \o LabelText("GENERAL") \o <<"\n">>,
          LabelText("FAQ") \o <<".">>, <<>>, <<"R","O","U","T","E">>,
          LabelText("META") \o <<" ">> \o LabelText("FAQ")}

PrimaryOutcomes == {Unconfigured, NotOk, Throw, NoContent} \cup {Text(s) : s \in RouterTexts}

SecondaryOutcomes == {Throw, NoContent} \cup {Text(s) : s \in RouterTexts}

(***************************************************************************)
(* Language detection, translation, intent rewriting                      *)
(***************************************************************************)
romanUrduKeywords ==
  {<<"k","a","i","s","e">>, <<"k","y","a">>, <<"k","y","u">>, <<"h","a","i">>,
   <<"h","a","i","n">>, <<"c","h","a","h","i","y","e">>, <<"k","i","t","n","e">>,
   <<"m","e","i","n">>, <<"a","a","p">>, <<"k","o">>, <<"k","i">>, <<"k","e">>}

\* new RegExp(`\\b${kw}\\b`, 'i').test(s)
KeywordMatches(kw, s) ==
  \E i \in 1..(Len(s) - Len(kw) + 1) :
    /\ ToLowerCase(SubSeq(s, i, i + Len(kw) - 1)) = kw
    /\ (i = 1 \/ ~IsWordChar(s[i - 1]))
    /\ (i + Len(kw) - 1 = Len(s) \/ ~IsWordChar(s[i + Len(kw)]))

\* a detection that counts the keywords before it looks for Urdu script
DetectLanguageKeywordsFirst(text) ==
  IF text = <<>> THEN "english"
  ELSE IF Cardinality({kw \in romanUrduKeywords : KeywordMatches(kw, ToLowerCase(text))}) >= 2
  THEN "roman"
  ELSE IF \E i \in 1..Len(text) : text[i] \in UrduChars THEN "urdu"
  ELSE "english"

detectLanguage(text) ==
  IF text = <<>> THEN "english"
  ELSE IF \E i \in 1..Len(text) : text[i] \in UrduChars THEN "urdu"
  ELSE LET normalized == ToLowerCase(text)
           keywordCount == Cardinality({kw \in romanUrduKeywords : KeywordMatches(kw, normalized)})
       IN IF keywordCount >= 2 THEN "roman" ELSE "english"

\* s.replace(/\s+/g, ' ')
CollapseWhiteSpace(s) ==
  IF Words(s) = <<>> THEN (IF s = <<>> THEN <<>> ELSE <<" ">>)
  ELSE (IF s[1] \in WhiteSpace THEN <<" ">> ELSE <<>>)
         \o JoinWords(Words(s))
         \o (IF s[Len(s)] \in WhiteSpace THEN <<" ">> ELSE <<>>)

normalizeText(text) == CollapseWhiteSpace(Trim(ToLowerCase(text)))

\* s.replace(/[^\w\s]/g, '')
RECURSIVE StripPunctuation(_)
StripPunctuation(s) ==
  IF s = <<>> THEN <<>>
  ELSE (IF IsWordChar(Head(s)) \/ Head(s) \in WhiteSpace THEN <<Head(s)>> ELSE <<>>)
         \o StripPunctuation(Tail(s))

RECURSIVE LongWords(_)
LongWords(ws) ==
  IF ws = <<>> THEN <<>>
  ELSE (IF Len(Head(ws)) > 2 THEN <<Head(ws)>> ELSE <<>>) \o LongWords(Tail(ws))

\* response.choices[0]?.message?.content?.trim() || ''
ContentOrEmpty(response) == IF response.k = "text" THEN Trim(response.s) ELSE <<>>

rewriteToCanonicalIntent(englishQuery, response) ==
  IF response.k = "throw"
  THEN JoinWords(Slice(LongWords(Words(normalizeText(englishQuery))), 6))
  ELSE Slice(Trim(CollapseWhiteSpace(StripPunctuation(ToLowerCase(ContentOrEmpty(response))))), 50)

translateToEnglish(text, sourceLanguage, response) ==
  IF sourceLanguage = "english" THEN text
  ELSE IF ContentOrEmpty(response) = <<>> THEN text
  ELSE ContentOrEmpty(response)

(***************************************************************************)
(* Response texts.  A text the handler returns is a record: the constant   *)
(* it is, or what produced it.                                             *)
(***************************************************************************)
Languages == {"english", "urdu", "roman"}

\* SAFE_FALLBACKS[lang]
SafeFallback(lang) == [k |-> "safe", v |-> lang, n |-> 0]

\* EARLY_RESPONSES[route][lang]
EarlyResponse(route, lang) == [k |-> route, v |-> lang, n |-> 0]

\* faq.answer of the FAQ with this id
FaqAnswer(id) == [k |-> "faq", v |-> "answer", n |-> id]

\* a non-empty text written by the completion service
Generated(what) == [k |-> "generated", v |-> what, n |-> 0]

\* "Here are some suggestions:" and its Urdu variant
SuggestReply(lang) == [k |-> "suggest", v |-> lang, n |-> 0]

NoText == [k |-> "none", v |-> "", n |-> 0]

\* llmResponse.choices[0]?.message?.content?.trim() || SAFE_FALLBACKS.english
AnswerOrFallback(response, what) ==
  IF response.k = "throw" \/ ContentOrEmpty(response) = <<>>
  THEN SafeFallback("english")
  ELSE Generated(what)

translateFromEnglish(text, targetLanguage, response) ==
  IF targetLanguage = "english" THEN text
  ELSE IF ContentOrEmpty(response) = <<>> THEN text
  ELSE Generated(targetLanguage)

\* Outcomes of a completion call whose text is used as written.
CompletionOutcomes == {Throw, NoContent, Text(<<" ">>), Text(<<"o","k">>)}

\* a call that returned a text counts as one that did not fail
Succeeded(response) == response.k = "text"

Spaces(n) == [i \in 1..n |-> " "]

Filler(n) == [i \in 1..n |-> "x"]

(***************************************************************************)
(* Input validation                                                        *)
(***************************************************************************)
MAX_INPUT_LENGTH == 1000

isValidInput(text, maxLength) == Len(text) > 0 /\ Len(text) <= maxLength

truncateText(text, maxLength) == Slice(text, maxLength)

\* a JSON string field of the request body, or its absence
Field(s) == [present |-> TRUE, s |-> s]

Missing == [present |-> FALSE, s |-> <<>>]

\* !x for a string field
Falsy(f) == ~f.present \/ f.s = <<>>

ValidateNoTruncate(message, userName) ==
  IF Falsy(message) \/ Falsy(userName)
  THEN [kind |-> "bad", normalized |-> <<>>]
  ELSE LET trimmed == Trim(message.s)
       IN IF trimmed = <<>> THEN [kind |-> "blank", normalized |-> <<>>]
          ELSE [kind |-> "ok", normalized |-> trimmed]

\* a validation that rejects a message of blanks like an empty one
ValidateBlankRejected(message, userName) ==
  IF Falsy(message) \/ Falsy(userName) \/ Trim(message.s) = <<>>
  THEN [kind |-> "bad", normalized |-> <<>>]
  ELSE LET trimmed == Trim(message.s)
       IN [kind |-> "ok",
           normalized |-> IF isValidInput(trimmed, MAX_INPUT_LENGTH) THEN trimmed
                          ELSE truncateText(trimmed, MAX_INPUT_LENGTH)]

\* kind: "bad" (HTTP 400), "blank" (safe fallback, HTTP 200) or "ok"
ValidateInput(message, userName) ==
  IF Falsy(message) \/ Falsy(userName)
  THEN [kind |-> "bad", normalized |-> <<>>]
  ELSE LET trimmed == Trim(message.s)
       IN IF trimmed = <<>> THEN [kind |-> "blank", normalized |-> <<>>]
          ELSE [kind |-> "ok",
                normalized |-> IF isValidInput(trimmed, MAX_INPUT_LENGTH) THEN trimmed
                               ELSE truncateText(trimmed, MAX_INPUT_LENGTH)]

(***************************************************************************)
(* The stores and the messages of the pipeline model                       *)
(***************************************************************************)
PIPELINE_VERSION == 1

WireIsOutNow == <<"w","i","r","e"," ","i","s"," ","o","u","t"," ","n","o","w">>

\* The user inputs of the model (message ids 1..6).
RawText(m) ==
  CASE m = 1 -> <<"h","i">>
    [] m = 2 -> WireIsOutNow
    [] m = 3 -> <<" ">> \o WireIsOutNow \o <<" ">>
    [] m = 4 -> WireIsOutNow \o <<" ">> \o Filler(MAX_INPUT_LENGTH - 10)
    [] m = 5 -> <<"<U+0628>"," ">> \o WireIsOutNow
    [] OTHER -> <<"k","y","a"," ">> \o WireIsOutNow \o <<" ","h","a","i">>

MsgIds == 1..6

UserName == Field(<<"S","a","m">>)

\* the handler's validation of each message, computed once
Validated == [m \in MsgIds |-> ValidateInput(Field(RawText(m)), UserName)]

Normalized(m) == Validated[m].normalized

\* queryWordCount <= 3
IsSuggestionCandidateOf == [m \in MsgIds |-> WordCount(Normalized(m)) <= 3]

LanguageOf == [m \in MsgIds |-> detectLanguage(Normalized(m))]

\* lower(text) = lower(?) for the row text of message a and the lookup text of message b
KeyMatches == [a \in MsgIds, b \in MsgIds |->
                 ToLowerCase(RawText(a)) = ToLowerCase(Normalized(b))]

\* the lookup text of the message is the text the client logged for it
KeyIsRawText(m) == KeyMatches[m, m]

\* /[^\u0000-\u007F]/.test(normalized)
HasNonAscii == [m \in MsgIds |-> \E i \in 1..Len(Normalized(m)) : Normalized(m)[i] \in UrduChars]

\* faq.media_ids of the FAQ with this id
FaqMedia(id) == IF id % 2 = 1 THEN {1} ELSE {}

\* A suggestion group: its keywords column and the number of chips in chips_json.
SuggestionStores ==
  {<<>>,
   <<[keywords |-> <<"h","i"," ","h","e","l","l","o">>, chips |-> 2]>>,
   <<[keywords |-> <<"h","i">>, chips |-> 0],
     [keywords |-> <<"W","i","r","e",","," ","b","r","u","s","h">>, chips |-> 1]>>}

FaqStores == {<<>>, <<1, 2, 3>>}

MediaStores == {{}, {1, 5, 6}}

\* the cache_enabled row of app_settings: absent, or its value
CacheSettings == {"absent", "true", "false", "FALSE"}

MaxTurns == 2

\* What the user types in a session, turn by turn.
Script(m, n) == [i \in 1..n |-> m]

\* A deployment and a session: the stores, the messages the user sends, the
\* label the routing model gives the session's message when it answers, and
\* whether the completion service answers every call with a text that is
\* not blank ("reliable") or may fail any call ("unreliable").  One-message sessions run against every
\* store and an unreliable service; repeated-message sessions run against
\* the populated stores and a reliable service.  history is what the
\* message log holds when the session starts, click the suggestionFaqId the
\* first request of the session carries (0: it carries none).
SingleTurnConfigs ==
  [cache : CacheSettings, faqs : FaqStores, suggestions : SuggestionStores,
   media : MediaStores, script : {Script(m, 1) : m \in MsgIds},
   label : RouteLabels, completion : {"unreliable"}, history : {<<>>}, click : {0}]

ReplayConfigs ==
  [cache : {"true", "false"}, faqs : {<<1, 2, 3>>},
   suggestions : {s \in SuggestionStores : Len(s) = 2},
   media : {{1, 5, 6}}, script : {Script(m, MaxTurns) : m \in MsgIds},
   label : RouteLabels, completion : {"reliable"}, history : {<<>>}, click : {0}]

Configs == SingleTurnConfigs \cup ReplayConfigs

\* the outcomes a completion call can have under the session's service
Offered(config, outcomes) ==
  IF config.completion = "reliable"
  THEN {o \in outcomes : o.k = "unconfigured" \/ (o.k = "text" /\ Trim(o.s) # <<>>)}
  ELSE outcomes

NoIntent == [null |-> TRUE, s |-> <<>>]

NumText(n) ==
  IF n < 10 THEN <<Digits[n + 1]>> ELSE <<Digits[(n \div 10) + 1], Digits[(n % 10) + 1]>>

Intent(s) == [null |-> FALSE, s |-> s]

\* The row api.createMessage inserts for a user turn: decision columns null.
UserRow(m) ==
  [sender |-> "user", msg |-> m, text |-> NoText, media_urls |-> {}, query_id |-> 0,
   canonical_intent |-> NoIntent, route |-> Null, resolved_faq_id |-> 0,
   pipeline_version |-> 0]

\* The row api.createMessage inserts for a bot reply.
BotRow(text, mediaUrls, queryId) ==
  [sender |-> "bot", msg |-> 0, text |-> text, media_urls |-> mediaUrls, query_id |-> queryId,
   canonical_intent |-> NoIntent, route |-> Null, resolved_faq_id |-> 0,
   pipeline_version |-> 0]

\* The rows the suggestion-click path inserts (lines 687-706): the user row
\* holds the normalized text, which for the clicked texts of the model is
\* the raw text of the message.
ClickUserRow(m, suggestionFaqId, queryId) ==
  [UserRow(m) EXCEPT !.query_id = queryId,
                     !.canonical_intent =
                        Intent(<<"S","U","G","G","E","S","T","I","O","N","_","C","L","I","C","K",":">>
                                 \o NumText(suggestionFaqId)),
                     !.route = "FAQ",
                     !.resolved_faq_id = suggestionFaqId,
                     !.pipeline_version = PIPELINE_VERSION]

ClickBotRow(text, mediaUrls, suggestionFaqId, queryId) ==
  [BotRow(text, mediaUrls, queryId) EXCEPT !.resolved_faq_id = suggestionFaqId,
                                           !.pipeline_version = PIPELINE_VERSION]

\* A user row of an earlier session as its request left it.
StoredRow(m, canonicalIntent, route, resolvedFaqId, version, queryId) ==
  [UserRow(m) EXCEPT !.query_id = queryId,
                     !.canonical_intent = Intent(canonicalIntent),
                     !.route = route,
                     !.resolved_faq_id = resolvedFaqId,
                     !.pipeline_version = version]

\* Logs of earlier sessions.  In the first, the newest decision for the
\* wire message was written under another pipeline version and an older one
\* under the current version; in the second, two decisions of the current
\* version are followed by a row that was never classified and by a
\* decision for another text; in the third, the only decision is of
\* another version; in the fourth and fifth, the decision names a FAQ (5)
\* that has since been deleted from the FAQ store, with and without the
\* logged reply.
Histories ==
  {<<StoredRow(2, <<"o","l","d">>, "META", 0, PIPELINE_VERSION, 7),
     BotRow(EarlyResponse("META", "english"), {}, 7),
     StoredRow(2, <<"s","t","a","l","e">>, "GENERAL", 0, PIPELINE_VERSION + 1, 8),
     BotRow(Generated("general"), {}, 8)>>,
   <<StoredRow(2, <<"o","l","d">>, "META", 0, PIPELINE_VERSION, 7),
     StoredRow(2, <<"n","e","w">>, "FAQ", 2, PIPELINE_VERSION, 8),
     UserRow(2),
     StoredRow(6, <<"o","t","h","e","r">>, "IRRELEVANT", 0, PIPELINE_VERSION, 9)>>,
   <<StoredRow(2, <<"s","t","a","l","e">>, "GENERAL", 0, PIPELINE_VERSION + 1, 8)>>,
   <<StoredRow(2, <<"g","o","n","e">>, "FAQ", 5, PIPELINE_VERSION, 7),
     BotRow(FaqAnswer(5), {}, 7)>>,
   <<StoredRow(2, <<"g","o","n","e">>, "FAQ", 5, PIPELINE_VERSION, 7)>>}

\* One-message sessions over a log of earlier sessions.
HistoryConfigs ==
  [cache : {"true"}, faqs : {<<1, 2, 3>>},
   suggestions : {s \in SuggestionStores : Len(s) = 2},
   media : {{1, 5, 6}}, script : {Script(m, 1) : m \in {1, 2, 3}},
   label : RouteLabels, completion : {"reliable"}, history : Histories, click : {0}]

\* Sessions that open with a click on a suggestion chip: the chip's text is
\* sent with the id of a FAQ that exists (2) or does not (4), then typed.
ClickConfigs ==
  [cache : {"true", "false"}, faqs : FaqStores,
   suggestions : {s \in SuggestionStores : Len(s) = 2},
   media : MediaStores, script : {Script(m, MaxTurns) : m \in {1, 2, 6}},
   label : {"FAQ", "EDUCATION"}, completion : {"reliable"}, history : {<<>>},
   click : {2, 4}]

LogConfigs == HistoryConfigs \cup ClickConfigs

\* Two browser tabs that send the same message, each logging its own row:
\* three messages under a reliable completion service, and the wire message
\* under an unreliable one; and two tabs that send different messages.
ConcurrentConfigs ==
  [cache : {"true"}, faqs : {<<1, 2, 3>>},
   suggestions : {s \in SuggestionStores : Len(s) = 2},
   media : {{1, 5, 6}}, script : {Script(m, 2) : m \in {1, 2, 3}},
   label : {"GREETING", "GENERAL", "FAQ"}, completion : {"reliable"},
   history : {<<>>}, click : {0}]
    \cup
  [cache : {"true"}, faqs : {<<1, 2, 3>>},
   suggestions : {s \in SuggestionStores : Len(s) = 2},
   media : {{1, 5, 6}}, script : {Script(2, 2)},
   label : {"GENERAL"}, completion : {"unreliable"},
   history : {<<>>}, click : {0}]
    \cup
  [cache : {"true"}, faqs : {<<1, 2, 3>>},
   suggestions : {s \in SuggestionStores : Len(s) = 2},
   media : {{1, 5, 6}}, script : {<<2, 6>>, <<1, 2>>},
   label : {"GENERAL"}, completion : {"reliable"},
   history : {<<>>}, click : {0}]

NewRequest(m, queryId, userRow) ==
  [pc |-> "receive", msg |-> m, queryId |-> queryId, userRow |-> userRow,
   suggestionFaqId |-> 0, early |-> FALSE,
   status |-> 0, text |-> NoText, mediaUrls |-> {}, faqId |-> 0, chips |-> 0,
   settingsRead |-> "none", cacheEnabled |-> TRUE, cacheRead |-> "skipped", hitRow |-> 0, hit |-> "none",
   usingCached |-> FALSE,
   cachedIntent |-> <<>>, cachedRoute |-> Null, cachedFaqId |-> 0,
   detected |-> FALSE, language |-> "english", translated |-> FALSE, canonicalIntent |-> <<>>,
   route |-> Null, search |-> "none", selectedFAQ |-> 0, resolvedFaqIdForCache |-> 0,
   finalAnswer |-> NoText, selectedMedia |-> {},
   nRouter |-> 0, nEmbed |-> 0, nSelect |-> 0, nAnswer |-> 0, nTranslateOut |-> 0,
   completionOk |-> FALSE,
   written |-> 0, botLogged |-> FALSE]

Respond(r, status, text, mediaUrls, faqId) ==
  [r EXCEPT !.pc = "responded", !.status = status, !.text = text,
            !.mediaUrls = mediaUrls, !.faqId = faqId]

\* records of one completion call whether it returned a text
Counted(r, response) ==
  IF Succeeded(response) THEN [r EXCEPT !.completionOk = TRUE] ELSE r

\* a lookup that finds no row
CacheLookupNoRow(table, m) == 0

\* ORDER BY created_at DESC LIMIT 1 over the rows satisfying a condition:
\* rows are kept in creation order, so the latest has the highest index (0: none)
Latest(indexes) ==
  IF indexes = {} THEN 0 ELSE CHOOSE i \in indexes : \A j \in indexes : j <= i

\* the oldest user row
OldestUserRow(table) ==
  IF \E i \in 1..Len(table) : table[i].sender = "user"
  THEN CHOOSE i \in 1..Len(table) :
         table[i].sender = "user" /\ \A j \in 1..(i - 1) : table[j].sender # "user"
  ELSE 0

LatestUserRow(table) == Latest({i \in 1..Len(table) : table[i].sender = "user"})

\* a lookup that takes rows of any pipeline version
CacheLookupAnyVersion(table, m) ==
  Latest({i \in 1..Len(table) :
            /\ table[i].sender = "user"
            /\ KeyMatches[table[i].msg, m]
            /\ table[i].route # Null})

\* SELECT ... WHERE sender = 'user' AND lower(text) = lower(?)
\*   AND pipeline_version = ? AND route IS NOT NULL ORDER BY created_at DESC LIMIT 1
CacheLookup(table, m) ==
  Latest({i \in 1..Len(table) :
            /\ table[i].sender = "user"
            /\ KeyMatches[table[i].msg, m]
            /\ table[i].pipeline_version = PIPELINE_VERSION
            /\ table[i].route # Null})

\* SELECT ... WHERE query_id = ? AND sender = 'bot' LIMIT 1
BotLookup(table, queryId) ==
  IF \E i \in 1..Len(table) : table[i].sender = "bot" /\ table[i].query_id = queryId
  THEN CHOOSE i \in 1..Len(table) :
         /\ table[i].sender = "bot" /\ table[i].query_id = queryId
         /\ \A j \in 1..(i - 1) : ~(table[j].sender = "bot" /\ table[j].query_id = queryId)
  ELSE 0

\* UPDATE chat_messages SET canonical_intent, route, resolved_faq_id,
\*   pipeline_version, query_id WHERE id = (latest user row)
CacheWrite(table, canonicalIntent, route, resolvedFaqId, queryId) ==
  LET i == LatestUserRow(table)
  IN IF i = 0 THEN table
     ELSE [table EXCEPT ![i] = [@ EXCEPT !.canonical_intent = Intent(canonicalIntent),
                                         !.route = route,
                                         !.resolved_faq_id = resolvedFaqId,
                                         !.pipeline_version = PIPELINE_VERSION,
                                         !.query_id = queryId]]

\* the suggestion path's UPDATE: resolved_faq_id is not set
SuggestionWrite(table, canonicalIntent, queryId) ==
  LET i == LatestUserRow(table)
  IN IF i = 0 THEN table
     ELSE [table EXCEPT ![i] = [@ EXCEPT !.canonical_intent = Intent(canonicalIntent),
                                         !.route = "GENERAL",
                                         !.pipeline_version = PIPELINE_VERSION,
                                         !.query_id = queryId]]

\* Answers of the FAQ-selection completion: isNum marks a plain integer
\* numeral, num is the integer it denotes.
SelectResponses ==
  {[r |-> Text(NumText(n)), isNum |-> TRUE, num |-> n] : n \in 0..(MaxFaqs + 1)}
    \cup {[r |-> Text(<<"-","1">>), isNum |-> TRUE, num |-> -1],
          [r |-> Text(<<" ","1","\n">>), isNum |-> TRUE, num |-> 1],
          [r |-> Text(<<"0","2">>), isNum |-> TRUE, num |-> 2],
          [r |-> Text(<<"9","9">>), isNum |-> TRUE, num |-> 99]}
    \cup {[r |-> x, isNum |-> FALSE, num |-> 0] :
            x \in {Text(NONE), Text(ToLowerCase(NONE)), Text(<<" ","N","o","n","e","\n">>),
                   Text(<<"2",".">>), Text(<<"F","A","Q"," ","1">>), Text(<<>>),
                   Text(NONE \o <<".">>), NoContent, Throw}}

(***************************************************************************)
(* The client and the handler.  req[t] is the request of turn t; the       *)
(* handler advances it one awaited stage at a time.                        *)
(***************************************************************************)
TranslationOutcomes == {Throw, NoContent, Text(<<"w","i","r","e"," ","o","u","t">>)}

\* The rewriting call fails, answers nothing, or rewrites the message.
IntentOutcomes ==
  {Throw, NoContent, Text(<<"H","i","!">>), Text(<<"W","i","r","e"," ","o","u","t",".">>)}

IntentOutcomesOf(m) ==
  {Throw, NoContent,
   IF m = 1 THEN Text(<<"H","i","!">>) ELSE Text(<<"W","i","r","e"," ","o","u","t",".">>)}

\* the canonical intent of each message under each outcome of the
\* translation and of the rewriting call, computed once
CanonicalIntentOf ==
  [m \in MsgIds, tr \in TranslationOutcomes, io \in IntentOutcomes |->
     rewriteToCanonicalIntent(translateToEnglish(Normalized(m), LanguageOf[m], tr), io)]

\* Outcomes of one routing backend in a request: it is not configured, it
\* fails, or it answers with the label the routing model gives the message.
BackendOutcomes(label) == {Unconfigured, Throw, Text(LabelText(label))}

EmbeddingOutcomes ==
  {[k |-> "throw", e |-> <<>>], [k |-> "ok", e |-> <<>>]}
    \cup {[k |-> "ok", e |-> v] : v \in IntentEmbeddings}

SelectOutcomes == {x.r : x \in SelectResponses}

\* DashboardPage handleSend: log the user turn, then call the chat endpoint.
\* Turns follow one another: a turn starts when the earlier ones have responded.
ClientSend ==
  /\ Len(req) < Len(cfg.script)
  /\ ~(Len(req) = 0 /\ cfg.click # 0)
  /\ \A t \in 1..Len(req) : req[t].pc = "responded"
  /\ rows' = Append(rows, UserRow(cfg.script[Len(req) + 1]))
  /\ req' = Append(req, NewRequest(cfg.script[Len(req) + 1], Len(req) + 1, Len(rows) + 1))
  /\ UNCHANGED <<call, cfg>>

\* handleSend in another tab: the turn is logged and sent while an earlier
\* request is still being handled.
ClientSendEarly ==
  /\ Len(req) < Len(cfg.script)
  /\ \E t \in 1..Len(req) : req[t].pc # "responded"
  /\ rows' = Append(rows, UserRow(cfg.script[Len(req) + 1]))
  /\ req' = Append(req, [NewRequest(cfg.script[Len(req) + 1], Len(req) + 1, Len(rows) + 1)
                           EXCEPT !.early = TRUE])
  /\ UNCHANGED <<call, cfg>>

\* handleSend after the response: log the bot reply with the response's queryId.
ClientLogBot(t) ==
  /\ req[t].pc = "responded"
  /\ req[t].status = 200
  /\ req[t].suggestionFaqId = 0
  /\ ~req[t].botLogged
  /\ rows' = Append(rows, BotRow(req[t].text, req[t].mediaUrls, req[t].queryId))
  /\ req' = [req EXCEPT ![t].botLogged = TRUE]
  /\ UNCHANGED <<call, cfg>>

\* selectMediaFromLinkedIds
selectMediaFromLinkedIds(faqMediaIds, media) == {x \in media : x \in faqMediaIds}

\* A click on a suggestion chip: the chip's text is sent with the id of the
\* FAQ the chip is linked to; the handler logs the turn.
ClientClick ==
  /\ Len(req) = 0
  /\ cfg.click # 0
  /\ Len(cfg.script) > 0
  /\ Validated[cfg.script[1]].kind = "ok"
  /\ req' = Append(req, [NewRequest(cfg.script[1], 1, 0) EXCEPT
                           !.pc = "click", !.suggestionFaqId = cfg.click])
  /\ UNCHANGED <<call, rows, cfg>>

\* The suggestion-click path (lines 660-719): the FAQ is answered directly
\* and the two rows of the turn are inserted; a FAQ that is not found
\* leaves the request to the main pipeline.
Click(t) ==
  LET r == req[t]
      id == r.suggestionFaqId
      detectedLang == LanguageOf[r.msg]
      found == \E i \in 1..Len(cfg.faqs) : cfg.faqs[i] = id
  IN
  /\ r.pc = "click"
  /\ \E loadOk \in BOOLEAN :
       IF ~loadOk
       THEN /\ req' = [req EXCEPT ![t] = Respond(r, 500, SafeFallback("english"), {}, 0)]
            /\ rows' = rows
       ELSE IF ~found
       THEN /\ req' = [req EXCEPT ![t].pc = "receive"]
            /\ rows' = rows
       ELSE \E o \in (IF detectedLang = "english" THEN {Throw}
                       ELSE Offered(cfg, CompletionOutcomes)),
               inserted \in 0..2 :
              LET finalAnswer == translateFromEnglish(FaqAnswer(id), detectedLang, o)
                  selectedMedia == selectMediaFromLinkedIds(FaqMedia(id), cfg.media)
                  log == <<ClickUserRow(r.msg, id, r.queryId),
                           ClickBotRow(finalAnswer, selectedMedia, id, r.queryId)>>
              IN /\ rows' = rows \o SubSeq(log, 1, inserted)
                 /\ req' = [req EXCEPT ![t] =
                      Respond([r EXCEPT !.detected = TRUE, !.language = detectedLang,
                                        !.finalAnswer = finalAnswer,
                                        !.selectedMedia = selectedMedia,
                                        !.userRow = IF inserted > 0 THEN Len(rows) + 1 ELSE 0],
                              200, finalAnswer, selectedMedia, id)]
  /\ UNCHANGED <<call, cfg>>

\* a gate that is closed when the setting cannot be read
CacheEnabledFailClosed(settingsOk, setting) == settingsOk /\ setting # "false"

\* let cacheEnabled = true; try { if (setting && setting.value === 'false')
\* cacheEnabled = false } catch { }
CacheEnabledOf(settingsOk, setting) == ~(settingsOk /\ setting = "false")

\* Validation, the cache setting and the cache read (lines 632-829).
\* settingsRead is the outcome of the settings read, which the handler
\* holds only until its next step.
Receive(t) ==
  LET r == req[t]
      m == r.msg
  IN
  /\ r.pc = "receive"
  /\ \E settingsOk \in BOOLEAN :
       LET cacheEnabled == CacheEnabledOf(settingsOk, cfg.cache)
           tryRead == cacheEnabled /\ ~IsSuggestionCandidateOf[m]
       IN \E readOk \in (IF tryRead THEN BOOLEAN ELSE {FALSE}) :
            LET found == IF tryRead /\ readOk THEN CacheLookup(rows, m) ELSE 0
                hasQueryId == found # 0 /\ rows[IF found = 0 THEN 1 ELSE found].query_id # 0
            IN \E botOk \in (IF hasQueryId THEN BOOLEAN ELSE {FALSE}) :
                 LET bot == IF hasQueryId /\ botOk
                            THEN BotLookup(rows, rows[found].query_id) ELSE 0
                     r1 == [r EXCEPT !.settingsRead = IF settingsOk THEN "ok" ELSE "failed",
                                     !.cacheEnabled = cacheEnabled,
                                     !.cacheRead = IF ~tryRead THEN "skipped"
                                                   ELSE IF readOk THEN "done" ELSE "failed",
                                     !.hitRow = found]
                 IN req' = [req EXCEPT ![t] =
                      IF Validated[m].kind = "bad"
                      THEN Respond(r, 400, NoText, {}, 0)
                      ELSE IF Validated[m].kind = "blank"
                      THEN Respond(r, 200, SafeFallback("english"), {}, 0)
                      ELSE IF bot # 0
                      THEN Respond([r1 EXCEPT !.hit = "full", !.settingsRead = "none"],
                                   200, rows[bot].text,
                                   rows[bot].media_urls, rows[bot].resolved_faq_id)
                      ELSE IF found # 0 /\ rows[IF found = 0 THEN 1 ELSE found].canonical_intent.s # <<>>
                                /\ rows[IF found = 0 THEN 1 ELSE found].route # Null
                      THEN [r1 EXCEPT !.pc = "understand", !.hit = "partial",
                                      !.usingCached = TRUE,
                                      !.cachedIntent = rows[found].canonical_intent.s,
                                      !.cachedRoute = rows[found].route,
                                      !.cachedFaqId = rows[found].resolved_faq_id]
                      ELSE [r1 EXCEPT !.pc = "understand"]]
  /\ UNCHANGED <<call, rows, cfg>>

\* Language detection, translation to English and the canonical intent
\* (lines 831-852).
Understand(t) ==
  LET r == req[t]
      language == LanguageOf[r.msg]
  IN
  /\ r.pc = "understand"
  /\ \E tr \in (IF language = "english" THEN {Throw}
                 ELSE Offered(cfg, TranslationOutcomes)) :
       LET r1 == [(IF language = "english" THEN r ELSE Counted(r, tr)) EXCEPT
                    !.detected = TRUE,
                    !.language = language,
                    !.translated = (language # "english")]
           cached == r.usingCached /\ r.cachedIntent # <<>>
       IN \E io \in (IF cached THEN {Throw} ELSE Offered(cfg, IntentOutcomesOf(r.msg))) :
            req' = [req EXCEPT ![t] =
              [(IF cached THEN r1 ELSE Counted(r1, io)) EXCEPT
                 !.pc = IF IsSuggestionCandidateOf[r.msg] THEN "suggest" ELSE "route",
                 !.settingsRead = "none",
                 !.canonicalIntent = IF cached THEN r.cachedIntent
                                     ELSE CanonicalIntentOf[r.msg, tr, io]]]
  /\ UNCHANGED <<call, rows, cfg>>

\* kws.some(k => intentWords.includes(k) || canonicalIntent.toLowerCase().includes(k))
GroupMatches(group, canonicalIntent) ==
  LET kws == Words(ToLowerCase(group.keywords))
  IN \E i \in 1..Len(kws) : Includes(ToLowerCase(canonicalIntent), kws[i])

RECURSIVE CollectedChips(_, _)
CollectedChips(groups, canonicalIntent) ==
  IF groups = <<>> THEN 0
  ELSE (IF GroupMatches(Head(groups), canonicalIntent) THEN Head(groups).chips ELSE 0)
         + CollectedChips(Tail(groups), canonicalIntent)

\* The suggestion chips check of a short query (lines 854-931).
Suggest(t) ==
  LET r == req[t]
  IN
  /\ r.pc = "suggest"
  /\ \E readOk \in BOOLEAN :
       LET chips == IF readOk THEN CollectedChips(cfg.suggestions, r.canonicalIntent) ELSE 0
       IN IF chips > 0
          THEN \E writeOk \in BOOLEAN :
                 /\ rows' = IF writeOk THEN SuggestionWrite(rows, r.canonicalIntent, r.queryId)
                            ELSE rows
                 /\ req' = [req EXCEPT ![t] =
                      Respond([r EXCEPT !.chips = chips,
                                        !.written = IF writeOk THEN LatestUserRow(rows) ELSE 0],
                              200,
                              SuggestReply(IF HasNonAscii[r.msg] THEN "urdu" ELSE "english"),
                              {}, 0)]
          ELSE /\ req' = [req EXCEPT ![t].pc = "route"]
               /\ rows' = rows
  /\ UNCHANGED <<call, cfg>>

\* Loading the FAQs and the media, and the route (lines 935-949).
Route(t) ==
  LET r == req[t]
      cached == r.usingCached /\ r.cachedRoute # Null
  IN
  /\ r.pc = "route"
  /\ \E loadOk \in BOOLEAN :
       IF ~loadOk
       THEN req' = [req EXCEPT ![t] = Respond(r, 500, SafeFallback("english"), {}, 0)]
       ELSE IF cached
       THEN req' = [req EXCEPT ![t] = [r EXCEPT !.pc = "branch", !.route = r.cachedRoute]]
       ELSE \E p \in Offered(cfg, BackendOutcomes(cfg.label)) :
            \E q \in (IF strictRouter(r.canonicalIntent, p, Throw).calls
                            \in {<<"primary">>} THEN {Throw}
                      ELSE Offered(cfg, BackendOutcomes(cfg.label) \ {Unconfigured})) :
              LET res == strictRouter(r.canonicalIntent, p, q)
                  r1 == IF res.calls[1] = "primary" THEN Counted(r, p) ELSE r
                  r2 == IF res.calls[Len(res.calls)] = "secondary" THEN Counted(r1, q) ELSE r1
              IN req' = [req EXCEPT ![t] =
                   [r2 EXCEPT !.pc = "branch", !.route = res.label, !.nRouter = @ + 1]]
  /\ UNCHANGED <<call, rows, cfg>>

\* the early routes answered like GENERAL
BranchEarlyGenerated(r) ==
  {[r EXCEPT !.finalAnswer = Generated("general"), !.resolvedFaqIdForCache = 0]}

\* case 'GREETING' / 'META' / 'IRRELEVANT'
BranchEarly(r) ==
  {[r EXCEPT !.finalAnswer = EarlyResponse(r.route, r.language),
             !.resolvedFaqIdForCache = 0]}

\* case 'EDUCATION': the diagrams (media 5 and 6) are attached after the call returns
BranchEducation(r, media, answers) ==
  {[Counted(r, a) EXCEPT
      !.nAnswer = @ + 1,
      !.resolvedFaqIdForCache = 0,
      !.finalAnswer = AnswerOrFallback(a, "education"),
      !.selectedMedia = IF a.k = "throw" THEN {} ELSE {x \in media : x = 5 \/ x = 6}] :
     a \in answers}

\* case 'GENERAL'
BranchGeneral(r, answers) ==
  {[Counted(r, a) EXCEPT !.nAnswer = @ + 1,
                         !.resolvedFaqIdForCache = 0,
                         !.finalAnswer = AnswerOrFallback(a, "general")] :
     a \in answers}

\* the FAQ search (lines 1048-1075) when the embedding call ends as e: the
\* request after the embedding call and, when the embedding is not empty,
\* the selection.  search records how the search ended.
FaqSearchOn(r, faqs, selections, e) ==
  IF e.k = "throw"
  THEN {[r EXCEPT !.nEmbed = @ + 1, !.search = "throw", !.resolvedFaqIdForCache = 0,
                  !.finalAnswer = SafeFallback("english")]}
  ELSE IF Len(e.e) = 0 THEN {[r EXCEPT !.nEmbed = @ + 1, !.search = "empty"]}
  ELSE {LET sel == selectBestFAQWithLLM(getTopFAQs(e.e, faqs, TopN), o)
            r1 == IF sel.called THEN Counted(r, o) ELSE r
        IN [r1 EXCEPT !.nEmbed = @ + 1,
                      !.search = "done",
                      !.nSelect = IF sel.called THEN @ + 1 ELSE @,
                      !.selectedFAQ = sel.faq,
                      !.resolvedFaqIdForCache = sel.faq] : o \in selections}

FaqSearch(r, faqs, selections) ==
  UNION {FaqSearchOn(r, faqs, selections, e) : e \in EmbeddingOutcomes}

\* the cached FAQ id (lines 1026-1046 and 1076-1083)
FaqFromCache(r, faqs) ==
  IF r.usingCached /\ r.cachedFaqId # 0 /\ \E i \in 1..Len(faqs) : faqs[i] = r.cachedFaqId
  THEN [r EXCEPT !.search = "cached", !.selectedFAQ = r.cachedFaqId,
                 !.resolvedFaqIdForCache = r.cachedFaqId]
  ELSE [r EXCEPT !.search = "cached", !.resolvedFaqIdForCache = 0]

\* a search that runs whatever was cached
ShouldAlwaysRunFaqSearch(r, faqs) == TRUE

shouldRunFaqSearch(r, faqs) ==
  ~(r.usingCached /\ (r.cachedFaqId = 0 \/ \E i \in 1..Len(faqs) : faqs[i] = r.cachedFaqId))

\* the answer of the FAQ branch (lines 1085-1104)
FaqAnswerOf(r, media, answers) ==
  IF r.selectedFAQ # 0
  THEN {[r EXCEPT !.finalAnswer = FaqAnswer(r.selectedFAQ),
                  !.selectedMedia = selectMediaFromLinkedIds(FaqMedia(r.selectedFAQ), media)]}
  ELSE {[Counted(r, a) EXCEPT !.nAnswer = @ + 1,
                              !.finalAnswer = AnswerOrFallback(a, "faq")] :
          a \in answers}

\* case 'FAQ'
BranchFaq(r, faqs, media, selections, answers) ==
  UNION {FaqAnswerOf(r1, media, answers) :
           r1 \in (IF shouldRunFaqSearch(r, faqs) THEN FaqSearch(r, faqs, selections)
                   ELSE {FaqFromCache(r, faqs)})}

\* switch (route): the request after each way its branch can end
BranchResults(r) ==
  CASE r.route \in {"GREETING", "META", "IRRELEVANT"} -> BranchEarly(r)
    [] r.route = "EDUCATION" ->
         BranchEducation(r, cfg.media, Offered(cfg, CompletionOutcomes))
    [] r.route = "GENERAL" -> BranchGeneral(r, Offered(cfg, CompletionOutcomes))
    [] r.route = "FAQ" ->
         BranchFaq(r, cfg.faqs, cfg.media, Offered(cfg, SelectOutcomes),
                   Offered(cfg, CompletionOutcomes))
    [] OTHER -> {[r EXCEPT !.finalAnswer = SafeFallback("english")]}

\* The branch on the route (lines 956-1111).
Branch(t) ==
  LET r == req[t]
  IN
  /\ r.pc = "branch"
  /\ \E r1 \in BranchResults(r) :
       req' = [req EXCEPT ![t] = [r1 EXCEPT !.pc = "finish"]]
  /\ UNCHANGED <<call, rows, cfg>>

\* a handler whose failed cache write surfaces as an error response
FinishWriteAborts(t) ==
  LET r == req[t]
      translate == r.language # "english" /\ r.route \notin {"GREETING", "META", "IRRELEVANT"}
  IN
  /\ r.pc = "finish"
  /\ \E o \in (IF translate THEN Offered(cfg, CompletionOutcomes) ELSE {Throw}),
        writeOk \in BOOLEAN :
       LET r1 == IF translate THEN [Counted(r, o) EXCEPT !.nTranslateOut = @ + 1] ELSE r
           finalAnswer == IF translate THEN translateFromEnglish(r.finalAnswer, r.language, o)
                          ELSE r.finalAnswer
       IN /\ rows' = IF writeOk
                     THEN CacheWrite(rows, r.canonicalIntent, r.route,
                                     r.resolvedFaqIdForCache, r.queryId)
                     ELSE rows
          /\ req' = [req EXCEPT ![t] =
               IF writeOk
               THEN Respond([r1 EXCEPT !.finalAnswer = finalAnswer,
                                       !.written = LatestUserRow(rows)],
                            200, finalAnswer, r.selectedMedia, r.selectedFAQ)
               ELSE Respond(r1, 500, SafeFallback("english"), {}, 0)]
  /\ UNCHANGED <<call, cfg>>

\* Translating the answer back, the cache write and the response
\* (lines 1113-1160).
Finish(t) ==
  LET r == req[t]
      translate == r.language # "english" /\ r.route \notin {"GREETING", "META", "IRRELEVANT"}
  IN
  /\ r.pc = "finish"
  /\ \E o \in (IF translate THEN Offered(cfg, CompletionOutcomes) ELSE {Throw}),
        writeOk \in BOOLEAN :
       LET r1 == IF translate THEN [Counted(r, o) EXCEPT !.nTranslateOut = @ + 1] ELSE r
           finalAnswer == IF translate THEN translateFromEnglish(r.finalAnswer, r.language, o)
                          ELSE r.finalAnswer
       IN /\ rows' = IF writeOk
                     THEN CacheWrite(rows, r.canonicalIntent, r.route,
                                     r.resolvedFaqIdForCache, r.queryId)
                     ELSE rows
          /\ req' = [req EXCEPT ![t] =
               Respond([r1 EXCEPT !.finalAnswer = finalAnswer,
                                  !.written = IF writeOk THEN LatestUserRow(rows) ELSE 0],
                       200, finalAnswer, r.selectedMedia, r.selectedFAQ)]
  /\ UNCHANGED <<call, cfg>>

Init ==
  /\ call = <<>>
  /\ rows = <<>>
  /\ req = <<>>
  /\ cfg \in Configs

Next ==
  \/ ClientSend
  \/ \E t \in 1..Len(req) : ClientLogBot(t)
  \/ \E t \in 1..Len(req) : Receive(t)
  \/ \E t \in 1..Len(req) : Understand(t)
  \/ \E t \in 1..Len(req) : Suggest(t)
  \/ \E t \in 1..Len(req) : Route(t)
  \/ \E t \in 1..Len(req) : Branch(t)
  \/ \E t \in 1..Len(req) : Finish(t)

Spec == Init /\ [][Next]_vars

\* Sessions over a log of earlier sessions and sessions opened by a click.
InitLog ==
  /\ call = <<>>
  /\ cfg \in LogConfigs
  /\ rows = cfg.history
  /\ req = <<>>

NextLog ==
  \/ Next
  \/ ClientClick
  \/ \E t \in 1..Len(req) : Click(t)

SpecLog == InitLog /\ [][NextLog]_vars

\* Requests handled concurrently: the handler's awaited stages interleave.
InitConcurrent ==
  /\ call = <<>>
  /\ rows = <<>>
  /\ req = <<>>
  /\ cfg \in ConcurrentConfigs

NextConcurrent ==
  \/ Next
  \/ ClientSendEarly

SpecConcurrent == InitConcurrent /\ [][NextConcurrent]_vars

(***************************************************************************)
(* Harness for the pure functions: Init draws the arguments, the one       *)
(* action applies the function.                                            *)
(***************************************************************************)
MainIdle == rows = <<>> /\ req = <<>> /\ cfg = <<>>

MaxVecLen == 2

Numbers == {Fin(0), Fin(1), Fin(-1), Fin(2), Big(1)}

RECURSIVE VectorsOfLen(_)
VectorsOfLen(n) ==
  IF n = 0 THEN {<<>>}
  ELSE {Append(v, x) : v \in VectorsOfLen(n - 1), x \in Numbers}

Vectors == UNION {VectorsOfLen(n) : n \in 0..MaxVecLen}

InitCosine ==
  /\ call \in {[fn |-> "cosineSimilarity", a |-> a, b |-> b, done |-> FALSE, ret |-> Zero] :
                 a \in Vectors, b \in Vectors}
  /\ MainIdle

CosineCall ==
  /\ ~call.done
  /\ call' = [call EXCEPT !.done = TRUE, !.ret = cosineSimilarity(call.a, call.b)]
  /\ UNCHANGED <<rows, req, cfg>>

SpecCosine == InitCosine /\ [][CosineCall]_vars

FaqLists == {[i \in 1..n |-> i] : n \in 0..MaxFaqs}

InitMatcher ==
  /\ call \in {[fn |-> "selectBestFAQWithLLM", embedding |-> e, faqs |-> f, response |-> x,
                topFAQs |-> <<>>, done |-> FALSE,
                ret |-> [faq |-> 0, reads |-> {}, called |-> FALSE]] :
                 e \in IntentEmbeddings, f \in FaqLists, x \in SelectResponses}
  /\ MainIdle

MatcherCall ==
  /\ ~call.done
  /\ LET topFAQs == getTopFAQs(call.embedding, call.faqs, TopN)
     IN call' = [call EXCEPT !.done = TRUE, !.topFAQs = topFAQs,
                             !.ret = selectBestFAQWithLLM(topFAQs, call.response.r)]
  /\ UNCHANGED <<rows, req, cfg>>

SpecMatcher == InitMatcher /\ [][MatcherCall]_vars

(***************************************************************************)
(* The FAQ search of one request, for each way the embedding call and the  *)
(* selection call can end.                                                 *)
(***************************************************************************)
InitSearch ==
  /\ call \in {[fn |-> "faqSearch", e |-> e, faqs |-> f, response |-> x,
                topFAQs |-> <<>>, done |-> FALSE, ret |-> NewRequest(2, 1, 0)] :
                 e \in EmbeddingOutcomes, f \in FaqLists, x \in SelectOutcomes}
  /\ MainIdle

SearchCall ==
  /\ ~call.done
  /\ \E r1 \in FaqSearchOn(call.ret, call.faqs, {call.response}, call.e) :
       call' = [call EXCEPT !.done = TRUE, !.ret = r1,
                            !.topFAQs = IF call.e.k = "ok" /\ Len(call.e.e) > 0
                                        THEN getTopFAQs(call.e.e, call.faqs, TopN)
                                        ELSE <<>>]
  /\ UNCHANGED <<rows, req, cfg>>

SpecSearch == InitSearch /\ [][SearchCall]_vars

RouterIntents == {<<>>, <<"h","i">>, <<"w","i","r","e">>}

InitRouter ==
  /\ call \in {[fn |-> "strictRouter", canonicalIntent |-> i, primary |-> p, secondary |-> q,
                done |-> FALSE, ret |-> [label |-> Null, calls |-> <<>>]] :
                 i \in RouterIntents, p \in PrimaryOutcomes, q \in SecondaryOutcomes}
  /\ MainIdle

RouterCall ==
  /\ ~call.done
  /\ call' = [call EXCEPT !.done = TRUE,
                !.ret = strictRouter(call.canonicalIntent, call.primary, call.secondary)]
  /\ UNCHANGED <<rows, req, cfg>>

SpecRouter == InitRouter /\ [][RouterCall]_vars

MaxPad == 2

\* Messages around the length limit: leading blanks, two words, a long
\* word, a gap, a last word, trailing blanks.
LongMessages ==
  {Spaces(lead) \o <<"a","b"," ">> \o Filler(n) \o Spaces(gap) \o <<"c","d">> \o Spaces(trail) :
     lead \in 0..MaxPad, gap \in 0..MaxPad, trail \in 0..MaxPad,
     n \in (MAX_INPUT_LENGTH - 8)..MAX_INPUT_LENGTH}

ShortMessages ==
  {<<>>, <<" ">>, <<"h","i">>, <<" ","h","i","\n">>, Spaces(MAX_INPUT_LENGTH + 1),
   Spaces(MAX_INPUT_LENGTH) \o <<"h","i">>}

InputFields == {Missing} \cup {Field(m) : m \in LongMessages \cup ShortMessages}

UserNames == {Missing, Field(<<>>), Field(<<"S","a","m">>)}

\* The handler from its entry to the end of validation (lines 618-651, and
\* the outer catch, lines 1161-1174): the response it returns there, or
\* that it goes on to the pipeline.  No external call is made before.
HandlerEntry(openaiApiKey, message, userName) ==
  IF ~openaiApiKey
  THEN [returned |-> TRUE, status |-> 500, error |-> TRUE, text |-> SafeFallback("english")]
  ELSE LET v == ValidateInput(message, userName)
       IN IF v.kind = "bad"
          THEN [returned |-> TRUE, status |-> 400, error |-> TRUE, text |-> NoText]
          ELSE IF v.kind = "blank"
          THEN [returned |-> TRUE, status |-> 200, error |-> FALSE,
                text |-> SafeFallback("english")]
          ELSE [returned |-> FALSE, status |-> 0, error |-> FALSE, text |-> NoText]

InitInput ==
  /\ call \in {[fn |-> "validate", openaiApiKey |-> k, message |-> m, userName |-> u,
                done |-> FALSE,
                entry |-> [returned |-> FALSE, status |-> 0, error |-> FALSE, text |-> NoText],
                ret |-> [kind |-> "bad", normalized |-> <<>>],
                retPrefix |-> [kind |-> "bad", normalized |-> <<>>]] :
                 k \in BOOLEAN, m \in InputFields, u \in UserNames}
  /\ MainIdle

\* The validation of the message, and of the message cut to its first
\* MAX_INPUT_LENGTH characters.
ValidateCall ==
  /\ ~call.done
  /\ call' = [call EXCEPT
                !.done = TRUE,
                !.entry = HandlerEntry(call.openaiApiKey, call.message, call.userName),
                !.ret = ValidateInput(call.message, call.userName),
                !.retPrefix = ValidateInput(
                    [call.message EXCEPT !.s = Slice(@, MAX_INPUT_LENGTH)], call.userName)]
  /\ UNCHANGED <<rows, req, cfg>>

SpecInput == InitInput /\ [][ValidateCall]_vars

(***************************************************************************)
(* C7 (as claimed): every message longer than 1000 characters is accepted  *)
(* and processed as the message made of its first 1000 characters.         *)
(***************************************************************************)
C7_TruncationAsPrefix ==
  (call.done /\ ~Falsy(call.userName) /\ Len(call.message.s) > MAX_INPUT_LENGTH)
    => (call.ret.kind = "ok" /\ call.ret = call.retPrefix)

(***************************************************************************)
(* C7 (amended): the handler trims, then truncates, and does not trim      *)
(* again.  A message longer than 1000 characters whose first and 1000th    *)
(* characters are not whitespace is accepted and processed as exactly its  *)
(* first 1000 characters, like the message made of those characters; in    *)
(* general an accepted text is at most 1000 characters long, starts where  *)
(* the message's first non-blank character is and is cut nowhere else.     *)
(***************************************************************************)
C7_TruncationAfterTrim ==
  (call.done /\ ~Falsy(call.userName) /\ call.message.present) =>
    LET m == call.message.s
    IN /\ (Len(m) > MAX_INPUT_LENGTH /\ m[1] \notin WhiteSpace
             /\ m[MAX_INPUT_LENGTH] \notin WhiteSpace)
          => /\ call.ret.kind = "ok"
             /\ call.ret.normalized = SubSeq(m, 1, MAX_INPUT_LENGTH)
             /\ call.ret = call.retPrefix
       /\ call.ret.kind = "ok" =>
            /\ Len(call.ret.normalized) <= MAX_INPUT_LENGTH
            /\ \E lead \in 0..Len(m) :
                 /\ \A i \in 1..lead : m[i] \in WhiteSpace
                 /\ m[lead + 1] \notin WhiteSpace
                 /\ call.ret.normalized
                      = SubSeq(m, lead + 1, lead + Len(call.ret.normalized))
                 /\ \/ Len(call.ret.normalized) = MAX_INPUT_LENGTH
                    \/ \A i \in (lead + Len(call.ret.normalized) + 1)..Len(m) :
                         m[i] \in WhiteSpace

\* a message over the limit, cut inside its long word
C7_Witness ==
  /\ call.done
  /\ ~Falsy(call.userName)
  /\ Len(call.message.s) > MAX_INPUT_LENGTH + 1
  /\ call.message.s[1] \notin WhiteSpace
  /\ call.message.s[MAX_INPUT_LENGTH] \notin WhiteSpace
  /\ call.ret.kind = "ok"
  /\ Len(call.ret.normalized) = MAX_INPUT_LENGTH
  /\ call.ret = call.retPrefix

(***************************************************************************)
(* C10: cosineSimilarity returns exactly 0, not NaN, when both vectors are *)
(* empty, when their lengths differ, or when either vector is all zeros.   *)
(***************************************************************************)
AllZeros(v) == \A i \in 1..Len(v) : v[i] = Fin(0)

C10_CosineEdgeCasesZero ==
  (call.done /\ ( \/ Len(call.a) = 0 /\ Len(call.b) = 0
                  \/ Len(call.a) # Len(call.b)
                  \/ AllZeros(call.a) \/ AllZeros(call.b) ))
    => call.ret = Zero

(***************************************************************************)
(* C9: selectBestFAQWithLLM returns null when the completion answers       *)
(* "NONE" or a number outside 1..k (k candidates), and every index of the  *)
(* candidate list it reads is inside the list.                             *)
(***************************************************************************)
C9_SelectNullOutOfRange ==
  call.done =>
    /\ (call.response.r.k = "text" /\ ToUpperCase(Trim(call.response.r.s)) = NONE)
         => call.ret.faq = 0
    /\ (call.response.isNum /\ call.response.num \notin 1..Len(call.topFAQs))
         => call.ret.faq = 0
    /\ call.ret.reads \subseteq 0..(Len(call.topFAQs) - 1)

\* an out-of-range number was answered although the best candidate scores above 0.5
C9_Witness ==
  /\ call.done
  /\ call.response.isNum
  /\ call.response.num > Len(call.topFAQs)
  /\ Len(call.topFAQs) = TopN
  /\ Len(call.faqs) > TopN
  /\ GreaterThanHalf(call.topFAQs[1].similarity)
  /\ call.ret.called
  /\ call.ret.faq = 0

(***************************************************************************)
(* C4: strictRouter returns one of the six labels for every canonical      *)
(* intent and every behaviour of the two backends.                         *)
(***************************************************************************)
C4_RouterTotal == call.done => call.ret.label \in RouteLabels

\* both backends were called and neither gave a label: the default is returned
C4_Witness ==
  /\ call.done
  /\ call.canonicalIntent = <<>>
  /\ call.primary.k = "notok"
  /\ call.secondary.k = "none"
  /\ call.ret.calls = <<"primary", "secondary">>
  /\ call.ret.label = "EDUCATION"

(***************************************************************************)
(* detectLanguage applied to bounded texts, more than once                 *)
(***************************************************************************)
MaxWords == 3

MaxRepeat == 2

\* Words a text is made of: keywords, a keyword in capitals, a keyword
\* followed by punctuation, two keywords run together, a word that is no
\* keyword, a word in Urdu script.
LanguageTokens ==
  {<<"k","y","a">>, <<"h","a","i">>, <<"K","Y","A">>, <<"k","o","?">>,
   <<"k","y","a","h","a","i">>, <<"w","i","r","e">>, <<"<U+0628>">>}

RECURSIVE TextsOfWords(_)
TextsOfWords(n) ==
  IF n = 0 THEN {<<>>}
  ELSE {IF t = <<>> THEN w ELSE t \o <<" ">> \o w :
          t \in TextsOfWords(n - 1), w \in LanguageTokens}

LanguageTexts == UNION {TextsOfWords(n) : n \in 0..MaxWords}

InitLanguage ==
  /\ call \in {[fn |-> "detectLanguage", text |-> t, rets |-> <<>>] : t \in LanguageTexts}
  /\ MainIdle

DetectCall ==
  /\ Len(call.rets) < MaxRepeat
  /\ call' = [call EXCEPT !.rets = Append(@, detectLanguage(call.text))]
  /\ UNCHANGED <<rows, req, cfg>>

SpecLanguage == InitLanguage /\ [][DetectCall]_vars

HasUrduScript(text) == \E i \in 1..Len(text) : text[i] \in UrduChars

(***************************************************************************)
(* C11: detectLanguage returns one of its three languages for every text,  *)
(* the same one each time it is applied to the same text, and urdu for any *)
(* text with a character in the Urdu script range whatever keywords it     *)
(* also contains.                                                          *)
(***************************************************************************)
C11_UrduScriptWins ==
  \A i \in 1..Len(call.rets) :
    /\ call.rets[i] \in Languages
    /\ call.rets[i] = call.rets[1]
    /\ HasUrduScript(call.text) => call.rets[i] = "urdu"

\* a text with Urdu script and two Roman-Urdu keywords was detected twice
C11_Witness ==
  /\ Len(call.rets) = MaxRepeat
  /\ HasUrduScript(call.text)
  /\ KeywordMatches(<<"k","y","a">>, call.text)
  /\ KeywordMatches(<<"h","a","i">>, call.text)
  /\ call.rets[MaxRepeat] = "urdu"

(***************************************************************************)
(* C18 (as claimed): a request whose message is missing, empty or made of  *)
(* whitespace, or whose userName is missing, is answered with HTTP 400 and *)
(* an error, before any external call, whatever the server configuration.  *)
(***************************************************************************)
NothingToProcess(message, userName) ==
  Falsy(message) \/ Falsy(userName) \/ Trim(message.s) = <<>>

Called(backend) == \E i \in 1..Len(call.ret.calls) : call.ret.calls[i] = backend

\* the backend answered with one of the six labels
Recognized(response) == response.k = "text" /\ IsLabelText(RouterResult(response))

CalledInOrder ==
  /\ Called("primary") <=> call.primary.k # "unconfigured"
  /\ Called("primary") => call.ret.calls[1] = "primary"
  /\ Called("secondary") <=> ~Recognized(call.primary)
  /\ Called("secondary") => call.ret.calls[Len(call.ret.calls)] = "secondary"
  /\ Len(call.ret.calls) \in 1..2
  /\ Len(call.ret.calls) = 2 => call.ret.calls[1] # call.ret.calls[2]

(***************************************************************************)
(* C20 (as claimed): the primary backend is called first and only if       *)
(* configured, the secondary only after the primary was unconfigured,      *)
(* failed or answered no label, each at most once, and EDUCATION is        *)
(* returned only after the secondary failed or answered no label.          *)
(***************************************************************************)
C20_EducationOnlyAfterBothFail ==
  call.done =>
    /\ CalledInOrder
    /\ call.ret.label = "EDUCATION" =>
         (Called("secondary") /\ ~Recognized(call.secondary))

(***************************************************************************)
(* C20 (amended): the same order of calls; the label a backend answers is  *)
(* returned as it is, EDUCATION included, and when the secondary was       *)
(* called and failed or answered no label EDUCATION is returned; so        *)
(* EDUCATION is returned either as the answer of the backend called last   *)
(* or after the secondary failed or answered no label.                     *)
(***************************************************************************)
C20_RouterCallOrder ==
  call.done =>
    /\ CalledInOrder
    /\ Recognized(call.primary) => call.ret.label = LabelOf(RouterResult(call.primary))
    /\ (~Recognized(call.primary) /\ Recognized(call.secondary)) =>
         call.ret.label = LabelOf(RouterResult(call.secondary))
    /\ (~Recognized(call.primary) /\ ~Recognized(call.secondary)) =>
         call.ret.label = "EDUCATION"
    /\ call.ret.label = "EDUCATION" =>
         \/ Called("secondary") /\ ~Recognized(call.secondary)
         \/ ~Called("secondary") /\ RouterResult(call.primary) = LabelText("EDUCATION")
         \/ Called("secondary") /\ RouterResult(call.secondary) = LabelText("EDUCATION")

\* the primary answered EDUCATION and the secondary was not called
C20_Witness ==
  /\ call.done
  /\ call.primary = Text(LabelText("EDUCATION"))
  /\ call.ret.label = "EDUCATION"
  /\ call.ret.calls = <<"primary">>

(***************************************************************************)
(* C23: when the selection call returns a response that is not an integer  *)
(* numeral in 1..k, k the number of candidates (empty text, no content,    *)
(* any other text, "NONE" included), selectBestFAQWithLLM returns null.    *)
(***************************************************************************)
C23_UnparsableSelectsNothing ==
  (/\ call.done
   /\ call.response.r.k # "throw"
   /\ ~(call.response.isNum /\ call.response.num \in 1..Len(call.topFAQs)))
    => call.ret.faq = 0

(***************************************************************************)
(* C25: for a text with no Urdu-script character, detectLanguage returns   *)
(* roman exactly when the whole-word, case-insensitive occurrences of the  *)
(* Roman-Urdu keywords in the text number at least 2, each occurrence of a *)
(* repeated keyword counting, and english otherwise.                       *)
(***************************************************************************)
KeywordOccurrences(s) ==
  {<<kw, i>> \in romanUrduKeywords \X (1..Len(s)) :
     /\ i + Len(kw) - 1 <= Len(s)
     /\ ToLowerCase(SubSeq(s, i, i + Len(kw) - 1)) = kw
     /\ (i = 1 \/ ~IsWordChar(s[i - 1]))
     /\ (i + Len(kw) - 1 = Len(s) \/ ~IsWordChar(s[i + Len(kw)]))}

C25_RomanByOccurrences ==
  \A i \in 1..Len(call.rets) :
    ~HasUrduScript(call.text) =>
      call.rets[i] = IF Cardinality(KeywordOccurrences(call.text)) >= 2
                     THEN "roman" ELSE "english"

(***************************************************************************)
(* C24: when the embedding call or the selection call throws, the search   *)
(* selects the highest-scoring candidate exactly when that candidate's     *)
(* similarity is above 0.5 and selects nothing otherwise; it never selects *)
(* a candidate that another one outranks.  When the embedding call throws  *)
(* no candidate is scored (topFAQs is empty).                              *)
(***************************************************************************)
SearchThrew ==
  \/ call.e.k = "throw"
  \/ call.ret.nSelect = 1 /\ call.response.k = "throw"

C24_ThrowFallsBackToTop ==
  (call.done /\ SearchThrew) =>
    LET chosen == call.ret.selectedFAQ
        top == call.topFAQs
        above == {i \in 1..Len(top) : GreaterThanHalf(top[i].similarity)}
    IN /\ chosen # 0 =>
            \E i \in above :
              /\ top[i].faq = chosen
              /\ \A j \in 1..Len(top) : ~SimLess(top[i].similarity, top[j].similarity)
       /\ chosen = 0 => above = {}

\* the selection call throws with several candidates and the top one is
\* above the threshold
C24_Witness ==
  /\ call.done
  /\ call.e.k = "ok"
  /\ call.ret.nSelect = 1
  /\ call.response.k = "throw"
  /\ Len(call.topFAQs) >= 2
  /\ call.ret.selectedFAQ # 0
  /\ \E j \in 1..Len(call.topFAQs) : ~GreaterThanHalf(call.topFAQs[j].similarity)

(***************************************************************************)
(* Requests of the handler                                                 *)
(***************************************************************************)
Requests == 1..Len(req)

Responded(t) == req[t].pc = "responded"

Accepted(t) == Validated[req[t].msg].kind = "ok"

(***************************************************************************)
(* C12: the step that reads the cache setting leaves the cache enabled     *)
(* when the row is absent, when its value is not the string 'false' and    *)
(* when the read throws, disables it only for a stored 'false', and after  *)
(* a read that throws the request goes on (or answers 200 from the cache). *)
(***************************************************************************)
SettingStep(t) == req[t].pc = "receive" /\ req'[t].pc # "receive" /\ Accepted(t)

C12_CacheGateFailsOpen ==
  [][\A t \in Requests :
       SettingStep(t) =>
         /\ req'[t].cacheEnabled =
              ~(req'[t].settingsRead = "ok" /\ cfg.cache = "false")
         /\ req'[t].settingsRead = "failed" =>
              (req'[t].pc = "understand" \/ req'[t].status = 200)]_vars

\* the stored value is 'false' and the read threw: the cache was read
C12_Witness ==
  \E t \in Requests :
    /\ cfg.cache = "false"
    /\ req[t].settingsRead = "failed"
    /\ req[t].cacheEnabled
    /\ req[t].cacheRead = "done"
    /\ req[t].pc = "understand"

(***************************************************************************)
(* C13: a request that found the cache setting disabled reads no cached    *)
(* decision and writes none: the decision columns of its user row stay     *)
(* null.                                                                   *)
(***************************************************************************)
DecisionsNull(row) ==
  /\ row.canonical_intent = NoIntent
  /\ row.route = Null
  /\ row.resolved_faq_id = 0
  /\ row.pipeline_version = 0

C13_DisabledCacheUntouched ==
  \A t \in Requests :
    (Responded(t) /\ ~req[t].cacheEnabled) =>
      /\ req[t].cacheRead = "skipped"
      /\ req[t].hit = "none"
      /\ req[t].written = 0
      /\ DecisionsNull(rows[req[t].userRow])

(***************************************************************************)
(* C14: the row a cache hit was taken from is a user row whose text equals *)
(* the lookup text (letter case apart), whose pipeline_version is the      *)
(* current one and whose route is not null; no row created after it and    *)
(* before the request's own row is such a row; the decisions of a partial  *)
(* hit are that row's, and the reply of a full hit is the bot row logged   *)
(* under that row's query id.                                              *)
(***************************************************************************)
Cacheable(i, m) ==
  /\ rows[i].sender = "user"
  /\ KeyMatches[rows[i].msg, m]
  /\ rows[i].pipeline_version = PIPELINE_VERSION
  /\ rows[i].route # Null

FinishStep(t) == req[t].pc = "finish" /\ req'[t].pc = "responded"

SuggestStep(t) == req[t].pc = "suggest" /\ req'[t].pc = "responded"

ReadStep(t) == req[t].pc = "receive" /\ req'[t].cacheRead \in {"done", "failed"}

\* the request after a cache read that found no row
AfterMiss(r, settingsRead) ==
  [r EXCEPT !.pc = "understand", !.settingsRead = settingsRead, !.cacheRead = "done"]

C16_DecisionsSetByUpdate ==
  \A i \in 1..Len(rows) :
    ~DecisionsNull(rows[i]) =>
      /\ rows[i].sender = "user"
      /\ i > Len(cfg.history) => \E t \in Requests : req[t].written = i

(***************************************************************************)
(* C17: once the request of a turn has responded 200 to an accepted        *)
(* message, and no write of it was refused by the database, the user row   *)
(* logged for the turn carries the request's decisions (route not null,    *)
(* the request's query id); and a request writes to no row but its own.    *)
(***************************************************************************)
\* the request reached one of the two UPDATEs and the database refused it
WriteFailed(t) == req[t].written = 0 /\ (req[t].route # Null \/ req[t].chips > 0)

C17_RowUpdatedByItsRequest ==
  \A t \in Requests :
    /\ req[t].written \in {0, req[t].userRow}
    /\ (Responded(t) /\ Accepted(t) /\ req[t].status = 200 /\ ~WriteFailed(t)) =>
         /\ rows[req[t].userRow].route # Null
         /\ rows[req[t].userRow].query_id = req[t].queryId

(***************************************************************************)
(* Two concurrent requests with the same text that both read the cache and *)
(* found no row                                                            *)
(***************************************************************************)
Missed(t) == req[t].cacheRead = "done" /\ req[t].hitRow = 0

BothMissed(t, u) ==
  /\ t \in Requests /\ u \in Requests /\ u = t + 1
  /\ req[u].early
  /\ req[t].msg = req[u].msg
  /\ Missed(t) /\ Missed(u)
  /\ Responded(t) /\ Responded(u)

\* row i holds the decision request t computed
RowHolds(i, t) ==
  /\ rows[i].canonical_intent = Intent(req[t].canonicalIntent)
  /\ rows[i].route = req[t].route
  /\ rows[i].resolved_faq_id = req[t].resolvedFaqIdForCache
  /\ rows[i].query_id = req[t].queryId
  /\ rows[i].pipeline_version = PIPELINE_VERSION

\* an identical request sent now would hit the cache on a decision of t or u
LaterRequestHits(t, u) ==
  LET h == CacheLookup(rows, req[t].msg)
  IN /\ h # 0
     /\ RowHolds(h, t) \/ RowHolds(h, u)
     /\ rows[h].canonical_intent.s # <<>> \/ BotLookup(rows, rows[h].query_id) # 0

\* the handler's stages in the order it goes through them
Rank(pc) ==
  CASE pc = "click" -> 0
    [] pc = "receive" -> 1
    [] pc = "understand" -> 2
    [] pc = "suggest" -> 3
    [] pc = "route" -> 4
    [] pc = "branch" -> 5
    [] pc = "finish" -> 6
    [] OTHER -> 7

\* Every request that was sent responds: until it has responded the
\* handler can take its next stage whatever the other request does, and
\* every step that touches it moves it to a later stage.
CanStep(t) ==
  IF req[t].pc = "branch" THEN BranchResults(req[t]) # {}
  ELSE ENABLED (Receive(t) \/ Understand(t) \/ Suggest(t) \/ Route(t) \/ Finish(t))

EachResponds ==
  /\ [](\A t \in Requests : ~Responded(t) => CanStep(t))
  /\ [][\A t \in Requests :
          (req'[t] # req[t] /\ ~Responded(t)) => Rank(req'[t].pc) > Rank(req[t].pc)]_vars

C28_RowsCarryOwnDecisions ==
  \A i \in 1..Len(rows) :
    (rows[i].sender = "user" /\ rows[i].route # Null) =>
      \E t \in Requests :
        /\ req[t].queryId = rows[i].query_id
        /\ req[t].msg = rows[i].msg

(***************************************************************************)
(* C21: every request that passed validation and was answered 200 had its  *)
(* language detected, and its message translated to English when the       *)
(* language of the message is not English, cache hits included.            *)
(***************************************************************************)
C21_LanguageAlwaysDetected ==
  \A t \in Requests :
    (Responded(t) /\ Accepted(t) /\ req[t].status = 200) =>
      /\ req[t].detected
      /\ req[t].language = LanguageOf[req[t].msg]
      /\ LanguageOf[req[t].msg] # "english" => req[t].translated

(***************************************************************************)
(* C22: a request answered on route GREETING, META or IRRELEVANT made no   *)
(* embedding, FAQ-selection, answer-generation or outbound-translation     *)
(* call; its text is the canned string of the route for the language of    *)
(* the message, it has no media and no FAQ id, and the row it wrote has a  *)
(* null resolved_faq_id.                                                   *)
(***************************************************************************)
EarlyRoutes == {"GREETING", "META", "IRRELEVANT"}

C22_EarlyRoutesAreCanned ==
  \A t \in Requests :
    (Responded(t) /\ req[t].status = 200 /\ req[t].route \in EarlyRoutes) =>
      /\ req[t].nEmbed = 0 /\ req[t].nSelect = 0
      /\ req[t].nAnswer = 0 /\ req[t].nTranslateOut = 0
      /\ req[t].text = EarlyResponse(req[t].route, LanguageOf[req[t].msg])
      /\ req[t].mediaUrls = {}
      /\ req[t].faqId = 0
      /\ req[t].written # 0 =>
           (rows[req[t].written].route = req[t].route
              /\ rows[req[t].written].resolved_faq_id = 0)

\* a Roman-Urdu message routed META from the cache of a first request
C22_Witness ==
  \E t \in Requests :
    /\ Responded(t) /\ req[t].status = 200
    /\ req[t].route = "META"
    /\ req[t].hit = "partial"
    /\ LanguageOf[req[t].msg] = "roman"
    /\ req[t].text = EarlyResponse("META", "roman")
    /\ req[t].written # 0

(***************************************************************************)
(* C26: a request answered on the EDUCATION branch carries the diagram     *)
(* media (ids 5 and 6) that exist in the media store, whether the          *)
(* answer-generation call returned or threw.                               *)
(***************************************************************************)
C26_EducationDiagramsAlways ==
  \A t \in Requests :
    (/\ Responded(t)
     /\ req[t].status = 200
     /\ req[t].route = "EDUCATION"
     /\ req[t].nAnswer = 1)
      => req[t].mediaUrls = {x \in cfg.media : x = 5 \/ x = 6}

(***************************************************************************)
(* C27: a request whose cache hit, full or partial, names a FAQ that is no *)
(* longer in the FAQ store does not answer from that FAQ: it runs the FAQ  *)
(* search against the current FAQs.                                        *)
(***************************************************************************)
InStore(id) == \E i \in 1..Len(cfg.faqs) : cfg.faqs[i] = id

HitOnDeletedFaq(t) ==
  /\ Responded(t)
  /\ req[t].status = 200
  /\ req[t].hit # "none"
  /\ rows[req[t].hitRow].resolved_faq_id # 0
  /\ ~InStore(rows[req[t].hitRow].resolved_faq_id)

C27_DeletedFaqSearchedAgain ==
  \A t \in Requests :
    HitOnDeletedFaq(t) =>
      /\ req[t].search \in {"throw", "empty", "done"}
      /\ req[t].text # FaqAnswer(rows[req[t].hitRow].resolved_faq_id)
      /\ req[t].faqId # rows[req[t].hitRow].resolved_faq_id

\* the same for the hits that replay decisions only
C27_PartialHitSearchesAgain ==
  \A t \in Requests :
    (HitOnDeletedFaq(t) /\ req[t].hit = "partial") =>
      /\ req[t].search \in {"throw", "empty", "done"}
      /\ req[t].text # FaqAnswer(rows[req[t].hitRow].resolved_faq_id)

(***************************************************************************)
(* C29: a request persists route FAQ with a null resolved_faq_id only when *)
(* its FAQ search ran to completion and selected nothing, or when it       *)
(* replayed a cached null; a search cut short by an embedding error or an  *)
(* empty embedding leaves no such row.                                     *)
(***************************************************************************)
PersistedNullBy(t) ==
  /\ Responded(t)
  /\ req[t].written # 0
  /\ rows[req[t].written].query_id = req[t].queryId
  /\ rows[req[t].written].route = "FAQ"
  /\ rows[req[t].written].resolved_faq_id = 0

C29_NullOnlyAfterCompletedSearch ==
  \A t \in Requests :
    PersistedNullBy(t) =>
      \/ req[t].search = "done" /\ req[t].selectedFAQ = 0
      \/ req[t].search = "cached" /\ req[t].usingCached /\ req[t].cachedFaqId = 0

(***************************************************************************)
(* C30: for every accepted message, the text the handler looks the cache   *)
(* up with equals, letter case aside, the text of the user row the client  *)
(* logged for the message, messages with surrounding whitespace or of more *)
(* than 1000 characters included.                                          *)
(***************************************************************************)
C30_LookupKeyIsLoggedText ==
  \A t \in Requests :
    (Accepted(t) /\ req[t].cacheRead = "done" /\ req[t].userRow # 0) =>
      ToLowerCase(Normalized(req[t].msg)) = ToLowerCase(RawText(rows[req[t].userRow].msg))

(***************************************************************************)
(* C6: a request with a non-empty message and userName responds with HTTP  *)
(* 200 and a non-empty text whatever later external call fails; no failure *)
(* surfaces as a 500.                                                      *)
(***************************************************************************)
C6_NoFailureSurfaces ==
  \A t \in Requests :
    (Responded(t) /\ Accepted(t)) => (req[t].status = 200 /\ req[t].text # NoText)

(***************************************************************************)
(* C5: when every completion call of a request fails and the request is    *)
(* routed to EDUCATION, GENERAL or FAQ without a matched FAQ, the response  *)
(* text is the safe fallback of the language detected for the message.     *)
(***************************************************************************)
C5_FallbackInDetectedLanguage ==
  \A t \in Requests :
    (/\ Responded(t)
     /\ req[t].status = 200
     /\ req[t].nRouter = 1
     /\ ~req[t].completionOk
     /\ req[t].route \in {"EDUCATION", "GENERAL", "FAQ"}
     /\ req[t].selectedFAQ = 0)
      => req[t].text = SafeFallback(LanguageOf[req[t].msg])

(***************************************************************************)
(* C8: for the message "hi" whose intent the router labels GREETING, the   *)
(* response is the English canned greeting with no media and no FAQ id,    *)
(* provided the suggestion check returned no chips for the request.        *)
(***************************************************************************)
IsHi(t) == RawText(req[t].msg) = <<"h","i">>

\* the routing model labels the message GREETING and the router, if it ran,
\* returned that label
RouterLabelsGreeting(t) ==
  /\ cfg.label = "GREETING"
  /\ req[t].route \in {Null, "GREETING"}

IsCannedGreeting(t) ==
  /\ req[t].text = EarlyResponse("GREETING", "english")
  /\ req[t].mediaUrls = {}
  /\ req[t].faqId = 0

C8_GreetingWithoutChips ==
  \A t \in Requests :
    (/\ Responded(t) /\ req[t].status = 200
     /\ IsHi(t)
     /\ RouterLabelsGreeting(t)
     /\ req[t].chips = 0)
      => IsCannedGreeting(t)

\* the statement for any contents of the suggestion store
C8_GreetingAnyStores ==
  \A t \in Requests :
    (/\ Responded(t) /\ req[t].status = 200
     /\ IsHi(t)
     /\ RouterLabelsGreeting(t))
      => IsCannedGreeting(t)

\* "hi" was greeted although a suggestion group names "hi": its chips are empty
C8_Witness ==
  \E t \in Requests :
    /\ Responded(t) /\ req[t].status = 200
    /\ IsHi(t)
    /\ req[t].route = "GREETING"
    /\ req[t].canonicalIntent = <<"h","i">>
    /\ Len(cfg.suggestions) = 2
    /\ cfg.faqs # <<>>
    /\ IsCannedGreeting(t)

(***************************************************************************)
(* Two successive requests with the same raw text                          *)
(***************************************************************************)
\* the bot reply of request t was logged before the user row of request u
BotLoggedBefore(t, u) ==
  \E i \in 1..(req[u].userRow - 1) :
    rows[i].sender = "bot" /\ rows[i].query_id = req[t].queryId

Successive(t, u) ==
  /\ t \in Requests /\ u \in Requests /\ u = t + 1
  /\ req[t].msg = req[u].msg
  /\ Responded(t) /\ Responded(u)

(***************************************************************************)
(* C2: after a first request resolved route FAQ with FAQ id N and the      *)
(* client logged its bot reply, a second request with the same text        *)
(* returns faqId = N and makes no embedding call.                          *)
(***************************************************************************)
C2_ReplayReturnsFaqId ==
  \A t, u \in Requests :
    (/\ Successive(t, u)
     /\ req[t].status = 200 /\ req[t].route = "FAQ" /\ req[t].faqId # 0
     /\ BotLoggedBefore(t, u))
      => (req[u].faqId = req[t].faqId /\ req[u].nEmbed = 0)

(***************************************************************************)
(* C3: on a cache hit whose cached route is FAQ and whose cached           *)
(* resolved_faq_id is null, no embedding call and no FAQ-selection call    *)
(* is made; on a partial hit the request that responds 200 generated the   *)
(* no-match answer and a cache write that succeeds persists route FAQ with *)
(* resolved_faq_id null; on a full hit the stored reply is returned and    *)
(* nothing is generated or persisted.                                      *)
(***************************************************************************)
HitOnFaqNull(t) ==
  /\ Responded(t)
  /\ req[t].hit \in {"full", "partial"}
  /\ rows[req[t].hitRow].route = "FAQ"
  /\ rows[req[t].hitRow].resolved_faq_id = 0

NoMatcherCall(t) == req[t].nEmbed = 0 /\ req[t].nSelect = 0

NoMatchGenerated(t) ==
  /\ req[t].route = "FAQ"
  /\ req[t].selectedFAQ = 0
  /\ req[t].finalAnswer # NoText

PersistedFaqNull(t) ==
  /\ req[t].written # 0
  /\ rows[req[t].written].route = "FAQ"
  /\ rows[req[t].written].resolved_faq_id = 0

CachingEnabled == cfg.cache # "false"

\* the first request ran the pipeline and its cache write succeeded
CachedBy(t) ==
  /\ req[t].status = 200
  /\ req[t].route # Null
  /\ req[t].canonicalIntent # <<>>
  /\ req[t].written = req[t].userRow

RouterCalls(t, u) == req[t].nRouter + req[u].nRouter

MatcherCalls(t, u) == req[t].nEmbed + req[u].nEmbed

SameDecisions(t, u) ==
  /\ req[u].canonicalIntent = req[t].canonicalIntent
  /\ req[u].route = req[t].route
  /\ req[u].selectedFAQ = req[t].selectedFAQ
  /\ req[u].resolvedFaqIdForCache = req[t].resolvedFaqIdForCache

====
